---- MODULE Spec2Model ----
(***************************************************************************)
(* Model of the chart rendering of the ONSights chat front end:            *)
(*   - the Visualization component (Visualization.tsx): prepareChartData,  *)
(*     customColors and renderChart;                                       *)
(*   - the inline chart of ChatInterface (ChatInterface.tsx, 138-200).     *)
(* A render pass is a pure function of the visualization payload attached  *)
(* to a message, so Init draws the payload from bounded sets and each      *)
(* action applies one of the two renderers to it.                          *)
(* The texts of the source are written without their accents ("Serie" for  *)
(* "Série").                                                               *)
(***************************************************************************)
EXTENDS Integers, Sequences, FiniteSets, TLC

VARIABLES data, pc, chartData, out

\* The render passes of a chat: the payloads attached to its messages, the
\* module-level palette array, and the result of the first render of each
\* message.
VARIABLES store, defaultPalette, first

callVars == <<store, defaultPalette, first>>

\* The chat: which of the two ChatInterface components runs, the message
\* history, the text of the input box, the loading flag, the backend request
\* in flight ("idle", "main" or "sub"), the last reply of the main request
\* that was handled, and the milliseconds elapsed on the clock.
VARIABLES impl, messages, input, isLoading, req, response, clock

chatVars == <<impl, messages, input, isLoading, req, response, clock>>

renderVars == <<data, pc, chartData, out>>

\* The details panel of ChatMessage: the message it is given and the tabs it
\* renders.
VARIABLES message, tabs

tabVars == <<message, tabs>>

vars == <<data, pc, chartData, out, callVars, chatVars, tabVars>>

----------------------------------------------------------------------------
(* JavaScript values.  Every value has the same four fields so that any two *)
(* values can be compared: t is the tag, n a number, s a string, a the      *)
(* elements of an array.                                                    *)

Undef == [t |-> "undef", n |-> 0, s |-> "", a |-> <<>>]

Num(n) == [t |-> "num", n |-> n, s |-> "", a |-> <<>>]

Str(s) == [t |-> "str", n |-> 0, s |-> s, a |-> <<>>]

Arr(a) == [t |-> "arr", n |-> 0, s |-> "", a |-> a]

\* JavaScript truthiness: undefined, 0 and "" are falsy, every array is truthy.
Truthy(v) ==
  CASE v.t = "undef" -> FALSE
    [] v.t = "num" -> v.n # 0
    [] v.t = "str" -> v.s # ""
    [] OTHER -> TRUE

\* Array.isArray(v)
IsArray(v) == v.t = "arr"

\* v[i] for a zero-based index i on a value that is not undefined: an element
\* of an array, undefined past its end and on a number.
Index(v, i) ==
  IF v.t = "arr" /\ i >= 0 /\ i < Len(v.a) THEN v.a[i + 1] ELSE Undef

\* v.length of an array
Length(v) == Len(v.a)

\* data.extra?.field
Opt(extra, field) == IF extra.present THEN extra[field] ELSE Undef

\* a || b
Or(a, b) == IF Truthy(a) THEN a ELSE b

----------------------------------------------------------------------------
(* Bounds of the inputs. *)

MaxLabels == 2

MaxSeries == 2

MaxMessages == 2

\* The messages a user sends in one chat.
MaxSends == 2

\* The milliseconds that pass during one chat.
MaxClock == 1

\* Date.now() when the page is loaded.
PageLoad == 1000

\* The built-in palette.
COLORS ==
  Arr(<<Str("#FFA500"), Str("#FFB300"), Str("#FFC107"), Str("#FFD54F"),
        Str("#FF9800"), Str("#FFECB3"), Str("#FFF8E1"), Str("#FFB74D")>>)

\* The chart kinds of VisualizationData.type.
Kinds == {"line", "bar", "pie", "boxplot", "scatter", "histogram", "timeseries"}

----------------------------------------------------------------------------
(* The payloads a backend reply can carry (VisualizationData).  The element *)
(* at position i of series s is the number 10*s + i, so that every position *)
(* of every series is told apart from every other.                          *)

\* labels: string[] | number[], or absent
LabelsChoices ==
  {Undef}
    \cup {Arr([i \in 1..n |-> Str("t" \o ToString(i))]) : n \in 0..MaxLabels}
    \cup {Arr([i \in 1..n |-> Num(2000 + i)]) : n \in 1..MaxLabels}

\* One series of the given length.
SeriesOf(s, len) == Arr([i \in 1..len |-> Num(10 * s + i)])

\* values: number[] | number[][], or absent
ValuesChoices ==
  {Undef, Arr(<<>>)}
    \cup {SeriesOf(1, len) : len \in 1..MaxLabels}
    \cup UNION {{Arr([s \in 1..n |-> SeriesOf(s, lens[s])]) :
                   lens \in [1..n -> 0..MaxLabels]} : n \in 1..MaxSeries}

\* extra.colors
ColorsChoices ==
  {Undef, Arr(<<>>), Arr(<<Str("red")>>), Arr(<<Str("red"), Str("blue")>>)}

\* extra.legendas
LegendasChoices ==
  {Undef, Arr(<<>>), Arr(<<Str("Wind")>>), Arr(<<Str("Wind"), Str("Solar")>>),
   Arr(<<Str(""), Str("Solar")>>), Arr(<<Str("Serie 2")>>),
   Arr(<<Str("Wind"), Str("Wind")>>)}

NoExtra ==
  [present |-> FALSE, title |-> Undef, xLabel |-> Undef, yLabel |-> Undef,
   colors |-> Undef, quartis |-> Undef, ranges |-> Undef, legendas |-> Undef]

\* extra.quartis: the points of a box plot, opaque to the component
QuartisChoices ==
  {Undef, Arr(<<>>),
   Arr(<<[name |-> Str("q1"), value |-> Num(5), max |-> Num(9)]>>)}

\* extra.ranges: opaque, only tested for presence
RangesChoices == {Undef, Arr(<<Num(1), Num(9)>>)}

\* extra.yLabel
YLabelChoices == {Undef, Str(""), Str("MW")}

\* The hints are varied in three families: palette with series names, palette
\* with the box plot fields, and the axis label.
ExtraChoices ==
  {NoExtra}
    \cup {[NoExtra EXCEPT !.present = TRUE, !.colors = c, !.legendas = l] :
            c \in ColorsChoices, l \in LegendasChoices}
    \cup {[NoExtra EXCEPT !.present = TRUE, !.colors = c, !.quartis = q,
                          !.ranges = r] :
            c \in ColorsChoices, q \in QuartisChoices, r \in RangesChoices}
    \cup {[NoExtra EXCEPT !.present = TRUE, !.yLabel = y] : y \in YLabelChoices}

\* message.visualization absent
NoData ==
  [present |-> FALSE, type |-> "", labels |-> Undef, values |-> Undef,
   extra |-> NoExtra]

DataChoices ==
  {NoData}
    \cup {[present |-> TRUE, type |-> k, labels |-> l, values |-> v, extra |-> e] :
            k \in Kinds \cup {"foo"}, l \in LabelsChoices, v \in ValuesChoices,
            e \in ExtraChoices}

----------------------------------------------------------------------------
(* Visualization.tsx *)

\* dataPoint[key] = v
SetField(p, key, v) ==
  [k \in DOMAIN p \cup {key} |-> IF k = key THEN v ELSE p[k]]

\* data.extra?.legendas?.[seriesIndex] || `Série ${seriesIndex + 1}`
seriesName(d, seriesIndex) ==
  LET legendas == Opt(d.extra, "legendas")
      given == IF legendas.t = "undef" THEN Undef ELSE Index(legendas, seriesIndex)
  IN  Or(given, Str("Serie " \o ToString(seriesIndex + 1))).s

\* The forEach over the series that fills one point of a multi-series chart:
\* the series 0..n-1 are written in order, a later one over an earlier one of
\* the same name.
RECURSIVE FillPoint(_, _, _, _)
FillPoint(d, dataPoint, index, n) ==
  IF n = 0 THEN dataPoint
  ELSE SetField(FillPoint(d, dataPoint, index, n - 1),
                seriesName(d, n - 1),
                Index(Index(d.values, n - 1), index))

\* prepareChartData with the single series mapped over values, not labels.
prepareChartData_OverValues(d) ==
  IF ~Truthy(d.labels) \/ ~Truthy(d.values) THEN <<>>
  ELSE IF IsArray(Index(d.values, 0))
    THEN [p \in 1..Length(d.labels) |->
            FillPoint(d, [k \in {"name"} |-> Index(d.labels, p - 1)],
                      p - 1, Length(d.values))]
    ELSE [p \in 1..Length(d.values) |->
            LET label == Index(d.labels, p - 1)
                index == p - 1
            IN  [name |-> label,
                 value |-> Index(d.values, index),
                 x |-> IF label.t = "num" THEN label ELSE Num(index),
                 y |-> Index(d.values, index)]]

\* prepareChartData with x always the index, also for a numeric label.
prepareChartData_XIndex(d) ==
  IF ~Truthy(d.labels) \/ ~Truthy(d.values) THEN <<>>
  ELSE IF IsArray(Index(d.values, 0))
    THEN [p \in 1..Length(d.labels) |->
            FillPoint(d, [k \in {"name"} |-> Index(d.labels, p - 1)],
                      p - 1, Length(d.values))]
    ELSE [p \in 1..Length(d.labels) |->
            LET label == Index(d.labels, p - 1)
                index == p - 1
            IN  [name |-> label,
                 value |-> Index(d.values, index),
                 x |-> Num(index),
                 y |-> Index(d.values, index)]]

prepareChartData(d) ==
  IF ~Truthy(d.labels) \/ ~Truthy(d.values) THEN <<>>
  ELSE IF IsArray(Index(d.values, 0))
    THEN [p \in 1..Length(d.labels) |->
            FillPoint(d, [k \in {"name"} |-> Index(d.labels, p - 1)],
                      p - 1, Length(d.values))]
    ELSE [p \in 1..Length(d.labels) |->
            LET label == Index(d.labels, p - 1)
                index == p - 1
            IN  [name |-> label,
                 value |-> Index(d.values, index),
                 x |-> IF label.t = "num" THEN label ELSE Num(index),
                 y |-> Index(d.values, index)]]

\* customColors with a hidden counter: the palette is rotated by the number
\* of messages rendered before.
customColors_Counter(d) ==
  LET colors == Or(Opt(d.extra, "colors"), COLORS)
      calls == Cardinality({m \in DOMAIN first : first[m].set})
  IN  Arr([i \in 1..Length(colors) |->
             colors.a[((i - 1 + calls) % Length(colors)) + 1]])

\* data.extra?.colors || COLORS
customColors(d) == Or(Opt(d.extra, "colors"), COLORS)

\* ColorAt without the modulo: the series index used as the palette index.
ColorAt_NoWrap(palette, index) == Index(palette, index)

\* palette[index % palette.length]; the index is NaN for an empty palette and
\* the element at NaN is undefined.
ColorAt(palette, index) ==
  IF Length(palette) = 0 THEN Undef
  ELSE Index(palette, index % Length(palette))

\* What a render pass hands to the chart library: the chart element el
\* ("null" when nothing is rendered, "div" for a text block, "throw" when the
\* render raised), its data, the data key of the category axis, the plotted
\* elements with their data key and colour, the fills of the pie cells, whether
\* a <Legend /> is present, the axis labels, barCategoryGap={0}, the title or
\* caption and the text of a text block.
Element(el) ==
  [el |-> el, data |-> <<>>, xKey |-> "", marks |-> <<>>, cells |-> <<>>,
   legend |-> FALSE, xLabel |-> Undef, yLabel |-> Undef, contiguous |-> FALSE,
   title |-> Undef, text |-> ""]

Mark(el, dataKey, color) == [el |-> el, dataKey |-> dataKey, color |-> color]

\* label={data.extra?.xLabel ? { value: data.extra.xLabel, ... } : undefined}
AxisLabel(d, field) ==
  IF Truthy(Opt(d.extra, field)) THEN Opt(d.extra, field) ELSE Undef

\* The <Bar> or <Line> children of a bar, line or timeseries chart: one per
\* series when values[0] is an array, else the single "value" element.
SeriesMarks(d, el, colors) ==
  IF IsArray(Index(d.values, 0))
    THEN [m \in 1..Length(d.values) |->
            Mark(el, seriesName(d, m - 1), ColorAt(colors, m - 1))]
    ELSE <<Mark(el, "value", Index(colors, 0))>>

\* pieData with the colour taken per series (the first colour for every slice).
pieData_PerSeries(points, colors) ==
  [p \in 1..Len(points) |-> SetField(points[p], "fill", Index(colors, 0))]

\* case 'pie': const pieData = chartData.map(...)
pieData(points, colors) ==
  [p \in 1..Len(points) |-> SetField(points[p], "fill", ColorAt(colors, p - 1))]

\* boxData that ignores extra.quartis.
boxData_NoQuartis(d, points) == points

\* case 'boxplot': const boxData = data.extra?.quartis || chartData
boxData(d, points) ==
  LET quartis == Opt(d.extra, "quartis")
  IN  IF Truthy(quartis) THEN quartis.a ELSE points

renderChart(d, points, colors) ==
  CASE d.type = "bar" ->
         \* data.values[0] on absent values raises a TypeError
         IF d.values.t = "undef" THEN Element("throw")
         ELSE [Element("BarChart") EXCEPT
                 !.data = points, !.xKey = "name",
                 !.xLabel = AxisLabel(d, "xLabel"),
                 !.yLabel = AxisLabel(d, "yLabel"),
                 !.marks = SeriesMarks(d, "Bar", colors),
                 !.legend = Truthy(Opt(d.extra, "legendas"))]
    [] d.type \in {"line", "timeseries"} ->
         IF d.values.t = "undef" THEN Element("throw")
         ELSE [Element("LineChart") EXCEPT
                 !.data = points, !.xKey = "name",
                 !.xLabel = AxisLabel(d, "xLabel"),
                 !.yLabel = AxisLabel(d, "yLabel"),
                 !.marks = SeriesMarks(d, "Line", colors),
                 !.legend = Truthy(Opt(d.extra, "legendas"))]
    [] d.type = "pie" ->
         [Element("PieChart") EXCEPT
            !.data = pieData(points, colors),
            !.marks = <<Mark("Pie", "value", Str("#8884d8"))>>,
            !.cells = [p \in 1..Len(points) |-> pieData(points, colors)[p].fill]]
    [] d.type = "scatter" ->
         [Element("ScatterChart") EXCEPT
            !.data = points, !.xKey = "x",
            !.xLabel = AxisLabel(d, "xLabel"),
            !.yLabel = AxisLabel(d, "yLabel"),
            !.marks = <<Mark("Scatter", "y", Index(colors, 0))>>]
    [] d.type = "histogram" ->
         [Element("BarChart") EXCEPT
            !.data = points, !.xKey = "name", !.contiguous = TRUE,
            !.xLabel = AxisLabel(d, "xLabel"),
            !.yLabel = IF Truthy(Opt(d.extra, "yLabel"))
                         THEN Or(Opt(d.extra, "yLabel"), Str("Frequencia"))
                         ELSE Undef,
            !.marks = <<Mark("Bar", "value", Index(colors, 0))>>]
    [] d.type = "boxplot" ->
         [Element("AreaChart") EXCEPT
            !.data = boxData(d, points), !.xKey = "name",
            !.marks = <<Mark("Area", "value", Index(colors, 0))>>
                        \o (IF Truthy(Opt(d.extra, "ranges"))
                              THEN <<Mark("Area", "max", Index(colors, 1))>>
                              ELSE <<>>)]
    [] OTHER ->
         [Element("div") EXCEPT
            !.text = "Tipo de grafico nao suportado: " \o d.type]

\* The component: null without data, else the card with the optional title
\* around renderChart(); an exception of renderChart leaves the component.
VisualizationOut(d) ==
  IF ~d.present THEN Element("null")
  ELSE LET chart == renderChart(d, prepareChartData(d), customColors(d))
       IN  IF chart.el = "throw" THEN chart
           ELSE [chart EXCEPT !.title = AxisLabel(d, "title")]

----------------------------------------------------------------------------
(* ChatInterface.tsx: the chart drawn inline under an assistant message *)

\* message.visualization.labels.map((label, i) => ({[k]: label, valor: values[i]}))
InlinePoints(d, k) ==
  [p \in 1..Length(d.labels) |->
     SetField([f \in {k} |-> Index(d.labels, p - 1)], "valor",
              Index(d.values, p - 1))]

\* extra?.colors?.[i] || ["#FFA500", "#FFB300", "#FFC107"][i % 3]
InlineCellColor(d, i) ==
  LET colors == Opt(d.extra, "colors")
      given == IF colors.t = "undef" THEN Undef ELSE Index(colors, i)
  IN  Or(given, Index(Arr(<<Str("#FFA500"), Str("#FFB300"), Str("#FFC107")>>), i % 3))

InlineChart(d) ==
  IF ~(d.present /\ IsArray(d.labels) /\ IsArray(d.values)
         /\ Length(d.labels) > 0 /\ Length(d.values) > 0)
    THEN Element("null")
    ELSE LET caption == Or(Opt(d.extra, "title"), Str("Grafico de dados"))
         IN  CASE d.type = "line" ->
                    [Element("LineChart") EXCEPT
                       !.data = InlinePoints(d, "hora"), !.xKey = "hora",
                       !.marks = <<Mark("Line", "valor", Str("#FFA500"))>>,
                       !.title = caption]
               [] d.type = "bar" ->
                    [Element("BarChart") EXCEPT
                       !.data = InlinePoints(d, "categoria"), !.xKey = "categoria",
                       !.marks = <<Mark("Bar", "valor", Str("#FFA500"))>>,
                       !.title = caption]
               [] d.type = "pie" ->
                    [Element("PieChart") EXCEPT
                       !.data = InlinePoints(d, "categoria"), !.xKey = "categoria",
                       !.marks = <<Mark("Pie", "valor", Undef)>>,
                       !.cells = [p \in 1..Length(d.labels) |->
                                    InlineCellColor(d, p - 1)],
                       !.legend = TRUE,
                       !.title = caption]
               [] OTHER -> [Element("div") EXCEPT !.title = caption]

----------------------------------------------------------------------------
(* One render pass of one payload by either renderer. *)

\* No chat: the render pass stands alone.
NoCalls ==
  /\ store = <<>>
  /\ defaultPalette = COLORS
  /\ first = <<>>

\* a reply of the backend: ok is false when fetch or response.json() failed,
\* isString says that the body is a JSON string, the other fields are those
\* of a JSON object
Reply(ok, isString, answer, text, visualization, tables, columns, need) ==
  [set |-> TRUE, ok |-> ok, isString |-> isString, answer |-> answer,
   text |-> text, visualization |-> visualization, tables |-> tables,
   columns |-> columns, needTableSelection |-> need]

\* no reply handled yet
NoReply ==
  [set |-> FALSE, ok |-> FALSE, isString |-> FALSE, answer |-> Undef,
   text |-> Undef, visualization |-> NoData, tables |-> Undef,
   columns |-> Undef, needTableSelection |-> FALSE]

\* No chat is running.
\* a message of ChatMessage as far as the details panel reads it
Props(sql_query, tables, columns, d) ==
  [sql_query |-> sql_query, tables |-> tables, columns |-> columns, data |-> d]

\* the panel: whether the card is rendered, the defaultValue of <Tabs>, the
\* values of the <TabsTrigger> and of the <TabsContent> elements rendered
Panel(rendered, shown, defaultValue, triggers, contents) ==
  [rendered |-> rendered, shown |-> shown, defaultValue |-> defaultValue,
   triggers |-> triggers, contents |-> contents]

\* no message is given to ChatMessage
NoPanel ==
  /\ message = Props(Undef, Undef, Undef, Undef)
  /\ tabs = Panel(FALSE, FALSE, "", {}, {})

NoChat ==
  /\ impl = "none"
  /\ messages = <<>>
  /\ input = ""
  /\ isLoading = FALSE
  /\ req = "idle"
  /\ response = NoReply
  /\ clock = 0

Init ==
  /\ data \in DataChoices
  /\ pc = "start"
  /\ chartData = <<>>
  /\ out = Element("none")
  /\ NoCalls
  /\ NoChat
  /\ NoPanel

\* ChatMessage renders <Visualization data={message.visualization} />
Visualization ==
  /\ pc = "start"
  /\ pc' = "Visualization"
  /\ chartData' = IF data.present THEN prepareChartData(data) ELSE <<>>
  /\ out' = VisualizationOut(data)
  /\ UNCHANGED <<data, callVars, chatVars, tabVars>>

\* ChatInterface renders the inline chart of the message
ChatInterface ==
  /\ pc = "start"
  /\ pc' = "ChatInterface"
  /\ out' = InlineChart(data)
  /\ UNCHANGED <<data, chartData, callVars, chatVars, tabVars>>

Next == Visualization \/ ChatInterface

Spec == Init /\ [][Next]_vars

----------------------------------------------------------------------------
(* The render passes of a chat.  Every change of the chat state renders the *)
(* message list again, so the Visualization component is called any number  *)
(* of times, in any order, on the payloads attached to the messages.        *)

Payload(k, l, v, e) ==
  [present |-> TRUE, type |-> k, labels |-> l, values |-> v, extra |-> e]

\* The payloads of the messages of the chat.
CallChoices ==
  {Payload("line", Arr(<<Str("t1"), Str("t2")>>),
           Arr(<<SeriesOf(1, 2), SeriesOf(2, 2)>>), NoExtra),
   Payload("line", Arr(<<Str("t1"), Str("t2")>>),
           Arr(<<SeriesOf(1, 2), SeriesOf(2, 1)>>),
           [NoExtra EXCEPT !.present = TRUE,
                           !.legendas = Arr(<<Str("Wind"), Str("Solar")>>)]),
   Payload("pie", Arr(<<Str("t1"), Str("t2")>>), SeriesOf(1, 2), NoExtra),
   Payload("bar", Arr(<<Num(2001), Num(2002)>>), SeriesOf(1, 2),
           [NoExtra EXCEPT !.present = TRUE, !.colors = Arr(<<Str("red")>>)]),
   Payload("boxplot", Arr(<<Str("t1")>>), SeriesOf(1, 1),
           [NoExtra EXCEPT !.present = TRUE,
                           !.colors = Arr(<<Str("red"), Str("blue")>>),
                           !.ranges = Arr(<<Num(1), Num(9)>>)]),
   Payload("foo", Arr(<<Str("t1")>>), SeriesOf(1, 1), NoExtra)}

\* message m has not been rendered yet
NoResult == [set |-> FALSE, chartData |-> <<>>, out |-> Element("none")]

InitCalls ==
  /\ store \in [1..MaxMessages -> CallChoices]
  /\ defaultPalette = COLORS
  /\ first = [m \in 1..MaxMessages |-> NoResult]
  /\ data = NoData
  /\ pc = "start"
  /\ chartData = <<>>
  /\ out = Element("none")
  /\ NoChat
  /\ NoPanel

\* RenderMessage that reverses the labels of the payload in place.
RenderMessage_ReversesLabels(m) ==
  /\ data' = store[m]
  /\ pc' = "Visualization"
  /\ chartData' = prepareChartData(store[m])
  /\ out' = VisualizationOut(store[m])
  /\ first' = IF first[m].set THEN first
              ELSE [first EXCEPT ![m] = [set |-> TRUE, chartData |-> chartData',
                                         out |-> out']]
  /\ store' = [store EXCEPT ![m].labels.a =
                 [i \in 1..Len(@) |-> @[Len(@) + 1 - i]]]
  /\ UNCHANGED <<defaultPalette, chatVars, tabVars>>

\* <Visualization data={message.visualization} /> for message m: the component
\* reads the payload and the palette and assigns to neither.
RenderMessage(m) ==
  /\ data' = store[m]
  /\ pc' = "Visualization"
  /\ chartData' = prepareChartData(store[m])
  /\ out' = VisualizationOut(store[m])
  /\ first' = IF first[m].set THEN first
              ELSE [first EXCEPT ![m] = [set |-> TRUE, chartData |-> chartData',
                                         out |-> out']]
  /\ UNCHANGED <<store, defaultPalette, chatVars, tabVars>>

NextCalls == \E m \in 1..MaxMessages : RenderMessage(m)

SpecCalls == InitCalls /\ [][NextCalls]_vars

----------------------------------------------------------------------------
(* ChatMessage.tsx: the details panel (tabs SQL, Tabelas, Colunas, Dados) *)

\* the lists a message can carry as tables, columns or data
ListChoices == {Undef, Arr(<<>>), Arr(<<Str("usinas")>>)}

\* message.sql_query
SqlChoices == {Undef, Str(""), Str("SELECT 1")}

MessageChoices ==
  {Props(q, t, c, d) :
     q \in SqlChoices, t \in ListChoices, c \in ListChoices, d \in ListChoices}

InitTabs ==
  /\ message \in MessageChoices
  /\ tabs = Panel(FALSE, FALSE, "", {}, {})
  /\ data = NoData
  /\ pc = "start"
  /\ chartData = <<>>
  /\ out = Element("none")
  /\ NoCalls
  /\ NoChat

\* message.tables && message.tables.length > 0
NonEmpty(v) == Truthy(v) /\ Length(v) > 0

\* the values of the tabs rendered for a message, triggers and contents alike
TabsOf(m) ==
  (IF Truthy(m.sql_query) THEN {"sql"} ELSE {})
    \cup (IF NonEmpty(m.tables) THEN {"tables"} ELSE {})
    \cup (IF NonEmpty(m.columns) THEN {"columns"} ELSE {})
    \cup (IF Truthy(m.data) THEN {"data"} ELSE {})

\* defaultValue of <Tabs>
DefaultValue(m) ==
  IF Truthy(m.sql_query) THEN "sql"
  ELSE IF Truthy(m.tables) THEN "tables"
  ELSE IF Truthy(m.columns) THEN "columns"
  ELSE "data"

\* ChatMessage renders the details panel of the message
ChatMessage ==
  /\ ~tabs.rendered
  /\ tabs' =
       IF Truthy(message.sql_query) \/ Truthy(message.tables)
            \/ Truthy(message.columns) \/ Truthy(message.data)
         THEN Panel(TRUE, TRUE, DefaultValue(message), TabsOf(message),
                    TabsOf(message))
         ELSE Panel(TRUE, FALSE, "", {}, {})
  /\ UNCHANGED <<message, renderVars, callVars, chatVars>>

NextTabs == ChatMessage

SpecTabs == InitTabs /\ [][NextTabs]_vars

----------------------------------------------------------------------------
(* The chat: ChatInterface.tsx (impl "ChatInterface", one request per send, *)
(* inline chart) and the ChatInterface of part_000 (impl "part_000", main   *)
(* workflow and sub-workflow, messages rendered by ChatMessage).            *)

\* a message of the history; data is the tables/columns field of part_000
Message(id, type, content, visualization, d) ==
  [id |-> id, type |-> type, content |-> content,
   visualization |-> visualization, data |-> d]

\* the initial state of messages
Greeting(i) ==
  Message(IF i = "ChatInterface" THEN "welcome" ELSE "1", "assistant",
          "Ola! Eu sou o assistente do ONSights.", NoData, Undef)

\* Date.now()
Now == PageLoad + clock

\* the texts the input box can hold
InputChoices == {"", "  ", " oi "}

\* input.trim(), on the texts of InputChoices
trim(text) ==
  CASE text = "  " -> ""
    [] text = " oi " -> "oi"
    [] OTHER -> text

\* the replies of the main request: a failure, a string body, columns with
\* needTableSelection, text with needTableSelection, text with a bar payload,
\* an answer with a scatter payload
ReplyChoices ==
  {Reply(FALSE, FALSE, Undef, Undef, NoData, Undef, Undef, FALSE),
   Reply(TRUE, TRUE, Undef, Str("texto"), NoData, Undef, Undef, FALSE),
   Reply(TRUE, FALSE, Undef, Undef, NoData, Undef, Arr(<<Str("usina")>>), TRUE),
   Reply(TRUE, FALSE, Undef, Str("ok"), NoData, Undef, Undef, TRUE),
   Reply(TRUE, FALSE, Undef, Str("ok"),
         Payload("bar", Arr(<<Str("t1"), Str("t2")>>), SeriesOf(1, 2), NoExtra),
         Undef, Undef, FALSE),
   Reply(TRUE, FALSE, Str("42"), Undef,
         Payload("scatter", Arr(<<Num(2001), Num(2002)>>), SeriesOf(1, 2), NoExtra),
         Undef, Undef, FALSE)}

\* the replies of the sub-workflow request: a failure, and columns
SubReplyChoices ==
  {Reply(FALSE, FALSE, Undef, Undef, NoData, Undef, Undef, FALSE),
   Reply(TRUE, FALSE, Undef, Undef, NoData, Undef, Arr(<<Str("usina")>>), FALSE)}

\* the number of messages the user has sent
Sends == Cardinality({i \in 1..Len(messages) : messages[i].type = "user"})

InitChat ==
  /\ impl \in {"ChatInterface", "part_000"}
  /\ messages = <<Greeting(impl)>>
  /\ input = ""
  /\ isLoading = FALSE
  /\ req = "idle"
  /\ response = NoReply
  /\ clock = 0
  /\ data = NoData
  /\ pc = "start"
  /\ chartData = <<>>
  /\ out = Element("none")
  /\ NoCalls
  /\ NoPanel

\* a millisecond passes
Tick ==
  /\ clock < MaxClock
  /\ clock' = clock + 1
  /\ UNCHANGED <<impl, messages, input, isLoading, req, response>>
  /\ UNCHANGED <<renderVars, callVars, tabVars>>

\* onChange of the input box, handleQuestionClick, handleQuickAction
setInput(text) ==
  /\ input' = text
  /\ UNCHANGED <<impl, messages, isLoading, req, response, clock>>
  /\ UNCHANGED <<renderVars, callVars, tabVars>>

\* handleSend without the test of isLoading
handleSend_NoLoadingTest ==
  /\ impl = "ChatInterface"
  /\ ~(trim(input) = "")
  /\ Sends < MaxSends
  /\ messages' = Append(messages,
                        Message(ToString(Now), "user", trim(input), NoData, Undef))
  /\ input' = ""
  /\ isLoading' = TRUE
  /\ req' = "main"
  /\ UNCHANGED <<impl, response, clock>>
  /\ UNCHANGED <<renderVars, callVars, tabVars>>

\* ChatInterface.tsx, handleSend up to the await of fetch
handleSend ==
  /\ impl = "ChatInterface"
  /\ ~(trim(input) = "" \/ isLoading)
  /\ Sends < MaxSends
  /\ messages' = Append(messages,
                        Message(ToString(Now), "user", trim(input), NoData, Undef))
  /\ input' = ""
  /\ isLoading' = TRUE
  /\ req' = "main"
  /\ UNCHANGED <<impl, response, clock>>
  /\ UNCHANGED <<renderVars, callVars, tabVars>>

\* the text shown for a reply: the string, data.answer, data.text or the JSON
formatted(r) ==
  IF r.isString THEN r.text.s
  ELSE IF Truthy(r.answer) THEN r.answer.s
  ELSE IF Truthy(r.text) THEN r.text.s
  ELSE "JSON.stringify(data, null, 2)"

\* handleSend from the reply on, with a catch that appends no notice
handleSendReply_NoNotice(r) ==
  /\ impl = "ChatInterface"
  /\ req = "main"
  /\ messages' =
       IF r.ok
         THEN Append(messages,
                Message(ToString(Now + 1), "assistant", formatted(r),
                        IF r.isString THEN NoData ELSE r.visualization, Undef))
         ELSE messages
  /\ isLoading' = FALSE
  /\ req' = "idle"
  /\ response' = r
  /\ UNCHANGED <<impl, input, clock>>
  /\ UNCHANGED <<renderVars, callVars, tabVars>>

\* ChatInterface.tsx, handleSend from the reply on: the assistant message with
\* data.visualization || null, or the error notice of the catch
handleSendReply(r) ==
  /\ impl = "ChatInterface"
  /\ req = "main"
  /\ messages' = Append(messages,
       IF r.ok
         THEN Message(ToString(Now + 1), "assistant", formatted(r),
                      IF r.isString THEN NoData ELSE r.visualization, Undef)
         ELSE Message(ToString(Now + 1), "assistant",
                      "Erro ao consultar o backend.", NoData, Undef))
  /\ isLoading' = FALSE
  /\ req' = "idle"
  /\ response' = r
  /\ UNCHANGED <<impl, input, clock>>
  /\ UNCHANGED <<renderVars, callVars, tabVars>>

\* the error notice of the catch of handleSend in part_000
ErrorNotice ==
  Message(ToString(Now + 2), "assistant",
          "Erro ao consultar o n8n Cloud. Tente novamente.", NoData, Undef)

\* handleSend putting the message of the user at the head of the history
handleSendWorkflow_Prepends ==
  /\ impl = "part_000"
  /\ ~(trim(input) = "" \/ isLoading)
  /\ Sends < MaxSends
  /\ isLoading' = TRUE
  /\ messages' = <<Message(ToString(Now), "user", input, NoData, Undef)>>
                    \o messages
  /\ input' = ""
  /\ req' = "main"
  /\ UNCHANGED <<impl, response, clock>>
  /\ UNCHANGED <<renderVars, callVars, tabVars>>

\* part_000, handleSend up to the await of sendToMainWorkflow
handleSendWorkflow ==
  /\ impl = "part_000"
  /\ ~(trim(input) = "" \/ isLoading)
  /\ Sends < MaxSends
  /\ isLoading' = TRUE
  /\ messages' = Append(messages,
                        Message(ToString(Now), "user", input, NoData, Undef))
  /\ input' = ""
  /\ req' = "main"
  /\ UNCHANGED <<impl, response, clock>>
  /\ UNCHANGED <<renderVars, callVars, tabVars>>

\* handleMainResponse calling the sub-workflow after every text reply
handleMainResponse_AlwaysSub(r) ==
  /\ impl = "part_000"
  /\ req = "main"
  /\ response' = r
  /\ IF ~r.ok
       THEN /\ messages' = Append(messages, ErrorNotice)
            /\ isLoading' = FALSE
            /\ req' = "idle"
       ELSE IF ~r.isString /\ (Truthy(r.tables) \/ Truthy(r.columns))
       THEN /\ messages' = Append(messages,
                 Message(ToString(Now), "assistant",
                         "Aqui estao as tabelas/colunas encontradas:", NoData,
                         Or(r.tables, r.columns)))
            /\ isLoading' = FALSE
            /\ req' = "idle"
       ELSE IF ~r.isString /\ Truthy(r.text)
       THEN /\ messages' = Append(messages,
                 Message(ToString(Now), "assistant", r.text.s, NoData, Undef))
            /\ IF TRUE
                 THEN req' = "sub" /\ isLoading' = TRUE
                 ELSE req' = "idle" /\ isLoading' = FALSE
       ELSE /\ messages' = Append(messages,
                 Message(ToString(Now), "assistant",
                         "Resposta nao reconhecida.", NoData, Undef))
            /\ isLoading' = FALSE
            /\ req' = "idle"
  /\ UNCHANGED <<impl, input, clock>>
  /\ UNCHANGED <<renderVars, callVars, tabVars>>

\* part_000, handleMainResponse on the reply of the main workflow (and the
\* catch and finally of handleSend): the appended message has the fields id,
\* type, content, timestamp and data only
handleMainResponse(r) ==
  /\ impl = "part_000"
  /\ req = "main"
  /\ response' = r
  /\ IF ~r.ok
       THEN /\ messages' = Append(messages, ErrorNotice)
            /\ isLoading' = FALSE
            /\ req' = "idle"
       ELSE IF ~r.isString /\ (Truthy(r.tables) \/ Truthy(r.columns))
       THEN /\ messages' = Append(messages,
                 Message(ToString(Now), "assistant",
                         "Aqui estao as tabelas/colunas encontradas:", NoData,
                         Or(r.tables, r.columns)))
            /\ isLoading' = FALSE
            /\ req' = "idle"
       ELSE IF ~r.isString /\ Truthy(r.text)
       THEN /\ messages' = Append(messages,
                 Message(ToString(Now), "assistant", r.text.s, NoData, Undef))
            /\ IF r.needTableSelection
                 THEN req' = "sub" /\ isLoading' = TRUE
                 ELSE req' = "idle" /\ isLoading' = FALSE
       ELSE /\ messages' = Append(messages,
                 Message(ToString(Now), "assistant",
                         "Resposta nao reconhecida.", NoData, Undef))
            /\ isLoading' = FALSE
            /\ req' = "idle"
  /\ UNCHANGED <<impl, input, clock>>
  /\ UNCHANGED <<renderVars, callVars, tabVars>>

\* callSubWorkflow without the finally of handleSend on a failure
callSubWorkflow_NoFinally(r) ==
  /\ impl = "part_000"
  /\ req = "sub"
  /\ messages' = Append(messages,
       IF r.ok
         THEN Message(ToString(Now), "assistant", "Resultado do subworkflow:",
                      NoData, Or(Or(r.tables, r.columns), Arr(<<Str("data")>>)))
         ELSE ErrorNotice)
  /\ isLoading' = r.ok
  /\ req' = "idle"
  /\ UNCHANGED <<impl, input, response, clock>>
  /\ UNCHANGED <<renderVars, callVars, tabVars>>

\* part_000, callSubWorkflow on the reply of the sub-workflow
callSubWorkflow(r) ==
  /\ impl = "part_000"
  /\ req = "sub"
  /\ messages' = Append(messages,
       IF r.ok
         THEN Message(ToString(Now), "assistant", "Resultado do subworkflow:",
                      NoData, Or(Or(r.tables, r.columns), Arr(<<Str("data")>>)))
         ELSE ErrorNotice)
  /\ isLoading' = FALSE
  /\ req' = "idle"
  /\ UNCHANGED <<impl, input, response, clock>>
  /\ UNCHANGED <<renderVars, callVars, tabVars>>

\* What is drawn under a message: the inline chart of ChatInterface.tsx, or
\* {message.visualization && <Visualization ... />} of ChatMessage.
MessageChart(i, msg) ==
  IF i = "ChatInterface" THEN InlineChart(msg.visualization)
  ELSE IF msg.visualization.present THEN VisualizationOut(msg.visualization)
  ELSE Element("null")

NextChat ==
  \/ Tick
  \/ \E text \in InputChoices : setInput(text)
  \/ handleSend
  \/ \E r \in ReplyChoices : handleSendReply(r)
  \/ handleSendWorkflow
  \/ \E r \in ReplyChoices : handleMainResponse(r)
  \/ \E r \in SubReplyChoices : callSubWorkflow(r)

SpecChat == InitChat /\ [][NextChat]_vars

\* The chat when every request to the backend eventually completes or fails:
\* the continuation after each await is eventually run.
SpecChatFair ==
  /\ SpecChat
  /\ WF_vars(\E r \in ReplyChoices : handleSendReply(r))
  /\ WF_vars(\E r \in ReplyChoices : handleMainResponse(r))
  /\ WF_vars(\E r \in SubReplyChoices : callSubWorkflow(r))

----------------------------------------------------------------------------
(* Vocabulary of the properties *)

\* values is a sequence of sequences
MultiSeries(d) == d.present /\ IsArray(d.values) /\ IsArray(Index(d.values, 0))

\* the chart elements of the chart library
ChartElements == {"BarChart", "LineChart", "PieChart", "ScatterChart", "AreaChart"}

\* labels or values absent, empty, or of mismatched length
Degenerate(d) ==
  \/ ~IsArray(d.labels) \/ ~IsArray(d.values)
  \/ Length(d.labels) = 0 \/ Length(d.values) = 0
  \/ IF MultiSeries(d)
       THEN \E s \in 1..Length(d.values) : Length(d.values.a[s]) # Length(d.labels)
       ELSE Length(d.values) # Length(d.labels)

\* a non-empty name was supplied for series s
NameSupplied(d, s) ==
  /\ d.extra.present
  /\ IsArray(d.extra.legendas)
  /\ Truthy(Index(d.extra.legendas, s))

\* token i (from 0) of the built-in palette under the modulo rule
DefaultColor(i) == COLORS.a[(i % Len(COLORS.a)) + 1]

----------------------------------------------------------------------------
(* C1: for every chart kind and every payload whose labels or values are    *)
(* absent, empty or of mismatched length, the Visualization render pass     *)
(* raises no exception: it ends in a chart or a visible placeholder.        *)
C1_NeverThrows ==
  (pc = "Visualization" /\ data.present /\ Degenerate(data))
    => out.el \in ChartElements \cup {"div"}

(* C2: for every multi-series payload, every series index s and every       *)
(* category index i, point i holds values[s][i] in the field named by the   *)
(* resolved name of series s.                                               *)
C2_FanOut ==
  (pc = "Visualization" /\ MultiSeries(data) /\ IsArray(data.labels))
    => /\ Len(chartData) = Length(data.labels)
       /\ \A s \in 0..(Length(data.values) - 1), i \in 0..(Length(data.labels) - 1) :
            /\ seriesName(data, s) \in DOMAIN chartData[i + 1]
            /\ chartData[i + 1][seriesName(data, s)]
                 = Index(Index(data.values, s), i)

(* C3: for every multi-series payload, every point has exactly len(values)  *)
(* series fields plus its category key, whatever names were supplied.       *)
C3_FieldCount ==
  (pc = "Visualization" /\ MultiSeries(data) /\ IsArray(data.labels))
    => \A i \in 1..Len(chartData) :
         /\ "name" \in DOMAIN chartData[i]
         /\ Cardinality(DOMAIN chartData[i]) = Length(data.values) + 1

(* C4: in a multi-series payload, a series index with no supplied non-empty *)
(* name resolves to the synthesized name of index+1, and that name differs  *)
(* from the name resolved for every other series index.                     *)
C4_NamesDistinct ==
  (pc = "Visualization" /\ MultiSeries(data))
    => \A s \in 0..(Length(data.values) - 1) :
         ~NameSupplied(data, s)
           => /\ seriesName(data, s) = "Serie " \o ToString(s + 1)
              /\ \A s2 \in 0..(Length(data.values) - 1) :
                   s2 # s => seriesName(data, s2) # seriesName(data, s)

(* C5: when extra.colors is absent or is an empty sequence, every colour    *)
(* of the rendered chart is the token of the built-in palette given by the  *)
(* modulo rule.                                                             *)
C5_DefaultPalette ==
  (/\ pc = "Visualization" /\ data.present /\ out.el \in ChartElements
   /\ Opt(data.extra, "colors") \in {Undef, Arr(<<>>)})
    => /\ out.el # "PieChart"
         => \A m \in 1..Len(out.marks) : out.marks[m].color = DefaultColor(m - 1)
       /\ \A p \in 1..Len(out.cells) : out.cells[p] = DefaultColor(p - 1)

(* C6: for a palette in effect of length k >= 1, series s of a multi-series *)
(* bar, line or timeseries chart is drawn in palette[s mod k].              *)
C6_CyclicColors ==
  (/\ pc = "Visualization"
   /\ data.type \in {"bar", "line", "timeseries"}
   /\ MultiSeries(data)
   /\ Length(customColors(data)) >= 1)
    => /\ out.el \in {"BarChart", "LineChart"}
       /\ Len(out.marks) = Length(data.values)
       /\ \A s \in 0..(Length(data.values) - 1) :
            LET palette == customColors(data).a
                k == Len(palette)
            IN  out.marks[s + 1].color = palette[(s % k) + 1]

\* Two series drawn from a supplied palette of one token: series 1 wraps
\* around to token 0.
C6_Witness ==
  /\ pc = "Visualization"
  /\ data.type = "bar"
  /\ MultiSeries(data)
  /\ Length(data.values) = 2
  /\ Opt(data.extra, "colors") = Arr(<<Str("red")>>)
  /\ Len(out.marks) = 2
  /\ out.marks[2].color = Str("red")

(* C7: a bar, line or timeseries chart has a legend exactly when the        *)
(* payload is multi-series or series names were supplied.                   *)
C7_Legend ==
  (/\ pc = "Visualization" /\ data.present
   /\ data.type \in {"bar", "line", "timeseries"}
   /\ out.el \in ChartElements)
    => out.legend = (MultiSeries(data) \/ IsArray(Opt(data.extra, "legendas")))

(* C8: a payload of a supported kind with empty labels and empty values is  *)
(* reported as an error: a visible message is shown and no chart is         *)
(* rendered.                                                                *)
C8_EmptySeries ==
  (/\ pc \in {"Visualization", "ChatInterface"}
   /\ data.present /\ data.type \in Kinds
   /\ data.labels = Arr(<<>>) /\ data.values = Arr(<<>>))
    => out.el = "div" /\ out.text # ""

(* C9: a pie payload whose values is a sequence of sequences is rejected:   *)
(* an error message is shown and no pie is drawn.                           *)
C9_PieMultiSeries ==
  (pc = "Visualization" /\ data.type = "pie" /\ MultiSeries(data))
    => out.el = "div" /\ out.text # ""

(* C10: a payload whose kind is outside the seven chart kinds is shown, for *)
(* any labels and values and by either renderer, as the visible "chart type *)
(* not supported" message, and no chart is rendered.                        *)
C10_UnsupportedKind ==
  (/\ pc \in {"Visualization", "ChatInterface"}
   /\ data.present /\ data.type \notin Kinds)
    => out.el = "div" /\ out.text = "Tipo de grafico nao suportado: " \o data.type

\* labels and values are arrays and the first value is not itself an array
SingleSeries(d) ==
  d.present /\ IsArray(d.labels) /\ IsArray(d.values) /\ ~IsArray(Index(d.values, 0))

(* C11: for every single-series payload the number of points equals the     *)
(* number of labels, whatever the length of values.                         *)
C11_PointCount ==
  (pc = "Visualization" /\ SingleSeries(data))
    => Len(chartData) = Length(data.labels)

\* Two labels and one value: two points.
C11_Witness ==
  /\ pc = "Visualization"
  /\ SingleSeries(data)
  /\ Length(data.labels) = 2
  /\ Length(data.values) = 1
  /\ Len(chartData) = 2

(* C12: for every single-series payload and every index i < len(labels),    *)
(* point i has category labels[i], value and y equal to values[i], and x    *)
(* equal to labels[i] when that label is a number and to i otherwise.       *)
C12_SinglePoint ==
  (pc = "Visualization" /\ SingleSeries(data))
    => \A i \in 0..(Length(data.labels) - 1) :
         /\ i < Len(chartData)
         /\ DOMAIN chartData[i + 1] = {"name", "value", "x", "y"}
         /\ chartData[i + 1].name = data.labels.a[i + 1]
         /\ chartData[i + 1].value
              = (IF i < Length(data.values) THEN data.values.a[i + 1] ELSE Undef)
         /\ chartData[i + 1].y = chartData[i + 1].value
         /\ chartData[i + 1].x
              = (IF data.labels.a[i + 1].t = "num" THEN data.labels.a[i + 1]
                 ELSE Num(i))

\* Numeric labels: the second point has x = 2002, not its index 1.
C12_Witness ==
  /\ pc = "Visualization"
  /\ SingleSeries(data)
  /\ Length(data.values) = 2
  /\ Len(chartData) = 2
  /\ chartData[2].x = Num(2002)
  /\ chartData[2].y = Num(12)

(* C13: in a multi-series payload where some series is shorter than labels, *)
(* the render raises nothing and there is one point per label; a position   *)
(* past the end of a series is undefined in the field of that series only,  *)
(* and every other position holds the value of its series.                  *)
C13_ShortSeries ==
  (/\ pc = "Visualization" /\ MultiSeries(data) /\ IsArray(data.labels)
   /\ \E s \in 1..Length(data.values) :
        Length(data.values.a[s]) < Length(data.labels))
    => /\ out.el # "throw"
       /\ Len(chartData) = Length(data.labels)
       /\ \A s \in 1..Length(data.values), i \in 1..Length(data.labels) :
            chartData[i][seriesName(data, s - 1)]
              = (IF i <= Length(data.values.a[s]) THEN data.values.a[s].a[i]
                 ELSE Undef)

\* the tokens of an array of colours
Tokens(palette) == {palette.a[i] : i \in 1..Length(palette)}

(* C14: for any chart kind and any supplied palette of length >= 1, every   *)
(* colour handed to the chart library is a token of that palette, the       *)
(* first colour of a single-series chart and the second colour of a box     *)
(* plot (taken cyclically) included.                                        *)
C14_ColorsDefined ==
  (/\ pc = "Visualization" /\ data.present /\ out.el \in ChartElements
   /\ IsArray(Opt(data.extra, "colors"))
   /\ Length(Opt(data.extra, "colors")) >= 1)
    => /\ out.el # "PieChart"
         => \A m \in 1..Len(out.marks) :
              out.marks[m].color \in Tokens(Opt(data.extra, "colors"))
       /\ \A p \in 1..Len(out.cells) :
            out.cells[p] \in Tokens(Opt(data.extra, "colors"))

(* C15: the y axis of a histogram is labelled with extra.yLabel when it is  *)
(* set and with the default "Frequencia" when it is not.                    *)
C15_HistogramYLabel ==
  (pc = "Visualization" /\ data.present /\ data.type = "histogram")
    => out.yLabel = (IF Truthy(Opt(data.extra, "yLabel"))
                       THEN Opt(data.extra, "yLabel")
                       ELSE Str("Frequencia"))

C17_BoxplotSource ==
  (pc = "Visualization" /\ data.present /\ data.type = "boxplot")
    => /\ out.el = "AreaChart"
       /\ out.data = (IF IsArray(Opt(data.extra, "quartis"))
                        THEN Opt(data.extra, "quartis").a
                        ELSE chartData)

\* quartis supplied next to two labels with two values: the chart shows the
\* one point of quartis, not the two prepared points.
C17_Witness ==
  /\ pc = "Visualization"
  /\ data.type = "boxplot"
  /\ SingleSeries(data)
  /\ Len(chartData) = 2
  /\ IsArray(Opt(data.extra, "quartis"))
  /\ Len(out.data) = 1
  /\ out.data[1].name = Str("q1")

(* C18: a render pass changes nothing outside its own output: the payloads  *)
(* attached to the messages and the built-in palette are the same after any *)
(* number of passes.                                                        *)
C18_Pure ==
  [][/\ store' = store
     /\ defaultPalette' = defaultPalette
     /\ defaultPalette' = COLORS]_vars

\* Both messages have been rendered, the last one a pie that took its colours
\* from the built-in palette.
C18_Witness ==
  /\ \A m \in DOMAIN first : first[m].set
  /\ DOMAIN first # {}
  /\ pc = "Visualization"
  /\ data.type = "pie"
  /\ Len(out.cells) = 2
  /\ out.cells[2] = COLORS.a[2]

LastUser ==
  CHOOSE i \in 1..Len(messages) :
    /\ messages[i].type = "user"
    /\ \A j \in (i + 1)..Len(messages) : messages[j].type # "user"

(* C20: once a reply of the backend has been handled, the assistant message *)
(* appended for it carries the visualization payload of the reply           *)
(* unchanged, and a chart is drawn under it exactly when the reply carried  *)
(* a payload.                                                               *)
C20_ChartIffPayload ==
  (req = "idle" /\ response.set /\ response.ok /\ ~response.isString)
    => LET msg == messages[LastUser + 1]
       IN  /\ msg.type = "assistant"
           /\ msg.visualization = response.visualization
           /\ (MessageChart(impl, msg).el \in ChartElements)
                <=> response.visualization.present

\* the last message of the history is one of the user, still unanswered
Unanswered == messages[Len(messages)].type = "user"

\* the texts of the error notices of the two implementations
Notices ==
  {"Erro ao consultar o backend.",
   "Erro ao consultar o n8n Cloud. Tente novamente."}

(* C21: when every request to the backend eventually completes or fails,    *)
(* every message of the user is eventually followed in the history by a     *)
(* message of the assistant (the answer or an error notice): the message   *)
(* after one of the user is never anything else, and a message of the user  *)
(* does not stay the last one.                                              *)
C21_Answered ==
  /\ [](\A k \in 1..(Len(messages) - 1) :
          messages[k].type = "user" => messages[k + 1].type = "assistant")
  /\ Unanswered ~> ~Unanswered

\* C21: a message of the user answered by an error notice, and one answered
\* by the backend's text
C21_Witness ==
  \E k, j \in 1..Len(messages) :
    /\ k < Len(messages) /\ j < Len(messages)
    /\ messages[k].type = "user" /\ messages[k + 1].content \in Notices
    /\ messages[j].type = "user" /\ messages[j + 1].content \notin Notices

(* C22: isLoading is true exactly while a request to the backend is         *)
(* outstanding: it is set when a send is accepted (the step that appends    *)
(* the message of the user), it is cleared only by the step that appends    *)
(* the reply or the error notice, and it is false whenever no request is    *)
(* outstanding, after a success and after a failure.                        *)
C22_Loading ==
  /\ [](isLoading <=> req # "idle")
  /\ [][/\ (~isLoading /\ isLoading')
            => (messages' = Append(messages, messages'[Len(messages')])
                  /\ messages'[Len(messages')].type = "user")
        /\ (isLoading /\ ~isLoading')
            => (messages' = Append(messages, messages'[Len(messages')])
                  /\ messages'[Len(messages')].type = "assistant")]_vars

\* C22: the sub-workflow request has failed, the notice is appended and the
\* indicator is off
C22_Witness ==
  /\ impl = "part_000"
  /\ response.needTableSelection
  /\ req = "idle"
  /\ ~isLoading
  /\ messages[Len(messages)].content \in Notices

(* C23: from a state in which isLoading is true or the input is blank after *)
(* trimming, no step appends a message of the user and no step starts a     *)
(* request of the main workflow, whatever the order of the events of the    *)
(* user and the replies of the backend: one send is processed at a time.    *)
C23_OneSend ==
  [][(isLoading \/ trim(input) = "")
       => /\ ~(/\ Len(messages') > Len(messages)
               /\ messages'[Len(messages')].type = "user")
          /\ ~(req # "main" /\ req' = "main")
          /\ (req = "main" => req' # "main" \/ messages' = messages)]_vars

\* C23: a request is outstanding and the user has typed the next question
C23_Witness ==
  /\ isLoading
  /\ req = "main"
  /\ trim(input) # ""
  /\ Sends < MaxSends

(* C24: after any sequence of sends, replies and failures, the messages of  *)
(* the history have pairwise distinct ids.                                  *)
C24_DistinctIds ==
  \A i, j \in 1..Len(messages) : i # j => messages[i].id # messages[j].id

(* C25: the history only grows: a step that changes it appends one message  *)
(* at the end and leaves the earlier ones as they were; the greeting stays  *)
(* first; a message of the assistant is appended only while a send is being *)
(* processed, so after the message of the user it answers.                  *)
C25_AppendOnly ==
  /\ [](Len(messages) >= 1 /\ messages[1] = Greeting(impl))
  /\ [][\/ messages' = messages
        \/ /\ Len(messages') = Len(messages) + 1
           /\ SubSeq(messages', 1, Len(messages)) = messages
           /\ messages'[Len(messages')].type = "assistant"
                => /\ req # "idle"
                   /\ \E k \in 2..Len(messages) :
                        /\ messages[k].type = "user"
                        /\ \A j \in (k + 1)..Len(messages) :
                             messages[j].type = "assistant"]_vars

\* C25: a send answered by a text and the result of the sub-workflow, then a
\* second send
C25_Witness ==
  /\ Len(messages) >= 5
  /\ messages[2].type = "user"
  /\ messages[3].type = "assistant"
  /\ messages[4].content = "Resultado do subworkflow:"
  /\ messages[5].type = "user"

\* the data fields the chart is told to plot: the dataKey of each mark (the
\* "y" of a scatter chart is the dataKey of its Y axis) and the "x" of a
\* scatter chart; the "max" of a boxplot's ranges is not one of the claim's
Plotted(chart) ==
  ({chart.marks[m].dataKey : m \in 1..Len(chart.marks)} \ {"max"})
    \cup (IF chart.xKey = "x" THEN {"x"} ELSE {})

(* C26: for every chart kind and either shape of values, each data field    *)
(* the chart is told to plot ("value", "x", "y" or a resolved series name)  *)
(* is a field of every prepared point.                                      *)
C26_PlottedFields ==
  (pc = "Visualization" /\ data.present /\ out.el \in ChartElements)
    => \A p \in 1..Len(chartData) : Plotted(out) \subseteq DOMAIN chartData[p]

\* the main workflow's reply that asks for the sub-workflow: text and the
\* flag, and neither tables nor columns
AsksTableSelection(r) ==
  /\ r.ok /\ ~r.isString
  /\ ~(Truthy(r.tables) \/ Truthy(r.columns))
  /\ Truthy(r.text)
  /\ r.needTableSelection

(* C27: in part_000 a request of the sub-workflow starts only on the step   *)
(* that handles a main reply with text and needTableSelection (and neither  *)
(* tables nor columns), that step appends the text message first, every     *)
(* such reply starts one, the request ends with one message appended after  *)
(* the text message and no second request; any other reply starts none.     *)
C27_SubWorkflow ==
  [][/\ (req = "main" /\ req' # "main" /\ impl = "part_000")
          => (req' = "sub" <=> AsksTableSelection(response'))
     /\ (req # "sub" /\ req' = "sub")
          => /\ req = "main" /\ impl = "part_000"
             /\ Len(messages') = Len(messages) + 1
             /\ messages'[Len(messages')].content = response'.text.s
     /\ (req = "sub" /\ (req' # "sub" \/ messages' # messages))
          => /\ req' = "idle"
             /\ messages[Len(messages)].content = response.text.s
             /\ SubSeq(messages', 1, Len(messages)) = messages
             /\ Len(messages') = Len(messages) + 1]_vars

\* C27: the text message, then the result of the sub-workflow
C27_Witness ==
  /\ impl = "part_000"
  /\ req = "idle"
  /\ AsksTableSelection(response)
  /\ Len(messages) >= 3
  /\ messages[Len(messages) - 1].content = response.text.s
  /\ messages[Len(messages)].content = "Resultado do subworkflow:"

(* C28: for every message that carries any of sql_query, tables, columns or *)
(* data, the tab selected by default in the details panel is one of the     *)
(* tabs displayed for it, also when tables or columns is an empty list.     *)
C28_DefaultTab ==
  (tabs.rendered /\ tabs.shown) => tabs.defaultValue \in tabs.triggers
====
